---------------------------- MODULE Spec2Model ----------------------------
(***************************************************************************)
(* Model of src/analyze_bots.py: the reader that merges a publisher's      *)
(* per-year event files (get_all_events_for_publisher), the date-range     *)
(* discovery (get_date_range) and the replay / daily materialisation of    *)
(* create_blocking_timeseries, driven by main.                             *)
(*                                                                         *)
(* Time.  An instant (a Python datetime) is an integer: day * TodPerDay +  *)
(* time-of-day slot.  A timestamp string "YYYYMMDDHHMMSS" is a tuple       *)
(* <<day, slot>>; the empty tuple is a missing or empty timestamp and a    *)
(* tuple of another length is a string that is not in that format.         *)
(* Strings compare lexicographically, as the sort key of the reader does.  *)
(***************************************************************************)
EXTENDS Integers, Sequences, FiniteSets, TLC

\* ------------------------------------------------------------------ bounds
MaxDay == 3
TodPerDay == 2

\* --------------------------------------------------------- program constants
Epoch == 0
FullSitePattern == "https://cnbc.com/"

Publishers == <<"p1", "p2">>
Bots == <<"GPTBot", "Googlebot">>
BotSet == {Bots[i] : i \in 1..Len(Bots)}

BotCategories(bot) ==
    CASE bot = "GPTBot" -> "AI"
      [] bot = "Googlebot" -> "Search"
      [] OTHER -> "Unknown"

\* ------------------------------------------------------------------- time
NoTimestamp == <<>>
BadTimestamp == <<1>>
\* The canonical string: the day in two characters, the time of day in one
ValidTimestamps ==
    {<<d \div 10, d % 10, t>> : d \in 1..MaxDay, t \in 0..(TodPerDay - 1)}
\* The same instants with the day written without its leading zero
UnpaddedTimestamps == {<<d, t>> : d \in 1..MaxDay, t \in 0..(TodPerDay - 1)}

\* datetime.strptime(s, "%Y%m%d%H%M%S") accepts a numeric field with or
\* without its leading zero, and raises ValueError on any other string
WellFormed(ts) ==
    \/ Len(ts) = 3 /\ ts[1] * 10 + ts[2] >= 1 /\ ts[3] \in 0..(TodPerDay - 1)
    \/ Len(ts) = 2 /\ ts[1] >= 1 /\ ts[2] \in 0..(TodPerDay - 1)
Strptime(ts) ==
    IF Len(ts) = 3 THEN (ts[1] * 10 + ts[2]) * TodPerDay + ts[3]
    ELSE ts[1] * TodPerDay + ts[2]

\* datetime.date(): the calendar day of an instant
DateOf(instant) == instant \div TodPerDay

\* (end - start).days: timedelta normalises to a floored number of days
TimedeltaDays(end, start) == (end - start) \div TodPerDay

\* str < str
RECURSIVE StrLess(_, _)
StrLess(a, b) ==
    IF b = <<>> THEN FALSE
    ELSE IF a = <<>> THEN TRUE
    ELSE IF Head(a) # Head(b) THEN Head(a) < Head(b)
    ELSE StrLess(Tail(a), Tail(b))

\* ------------------------------------------------------------------- dict
\* A Python dict keeps its keys in insertion order: a sequence of pairs.
DictKeys(d) == {d[i].k : i \in 1..Len(d)}
DictHas(d, key) == key \in DictKeys(d)
DictGet(d, key) == d[CHOOSE i \in 1..Len(d) : d[i].k = key].v
\* A store that keeps the value first assigned to a key (used to test the
\* overwriting property)
DictSetKeepingFirst(d, key, val) ==
    IF DictHas(d, key) THEN d ELSE Append(d, [k |-> key, v |-> val])

DictSet(d, key, val) ==
    IF DictHas(d, key)
    THEN [i \in 1..Len(d) |-> IF d[i].k = key THEN [k |-> key, v |-> val] ELSE d[i]]
    ELSE Append(d, [k |-> key, v |-> val])

\* ------------------------------------------------------------ JSON values
\* An allow / disallow value: absent, a plain value (a string or an array, in
\* items) or an object whose present keys are in keys and whose "added" array
\* is in added.
Absent == [type |-> "absent", items |-> <<>>, keys |-> {}, added |-> <<>>]
Plain(items) == [type |-> "plain", items |-> items, keys |-> {}, added |-> <<>>]
Delta(keys, added) == [type |-> "dict", items |-> <<>>, keys |-> keys, added |-> added]

\* bool(value)
Truthy(v) ==
    \/ v.type = "plain" /\ v.items # <<>>
    \/ v.type = "dict" /\ v.keys # {}

\* isinstance(d, dict) and d.get('added') == ['https://cnbc.com/'], where a
\* missing disallow defaults to {}
IsFullSiteDelta(v) ==
    /\ v.type = "dict"
    /\ "added" \in v.keys
    /\ v.added = <<FullSitePattern>>

\* A rule entry of initial_content or rule_changes; isdict is FALSE for an
\* entry that is not a JSON object.
Rule(agent, disallow, allow) ==
    [isdict |-> TRUE, user_agent |-> agent, disallow |-> disallow, allow |-> allow]
NotARule == [isdict |-> FALSE, user_agent |-> "", disallow |-> Absent, allow |-> Absent]

\* A facet of an event: the key is absent, holds an array, or holds a scalar
\* (a value that cannot be iterated).
NoFacet == [kind |-> "absent", items |-> <<>>]
List(items) == [kind |-> "list", items |-> items]
Scalar == [kind |-> "scalar", items |-> <<>>]

Event(ts, ic, rc, aa, ar) ==
    [isdict |-> TRUE, timestamp |-> ts, initial_content |-> ic,
     rule_changes |-> rc, agents_added |-> aa, agents_removed |-> ar]
\* An element of the merged list that is not a JSON object
NotAnEvent ==
    [isdict |-> FALSE, timestamp |-> NoTimestamp, initial_content |-> NoFacet,
     rule_changes |-> NoFacet, agents_added |-> NoFacet, agents_removed |-> NoFacet]

\* ------------------------------------------------------------------ files
Years == {"2023", "2024"}
\* Directory entries of a publisher: the year partitions and one other entry
DirEntries == Years \cup {"notes"}
IsDigit(name) == name \in Years
Listings ==
    {l \in [1..Cardinality(DirEntries) -> DirEntries] :
        \A i, j \in 1..Cardinality(DirEntries) : l[i] = l[j] => i = j}

\* The content of timeline_YYYY.json
FileAbsent == [kind |-> "absent", items |-> <<>>]
FileUnreadable == [kind |-> "unreadable", items |-> <<>>]
FileUnparseable == [kind |-> "unparseable", items |-> <<>>]
FileFalsy == [kind |-> "falsy", items |-> <<>>]
FileScalar == [kind |-> "scalar", items |-> <<>>]
FileObject == [kind |-> "object", items |-> <<NotAnEvent>>]
FileList(items) == [kind |-> "list", items |-> items]

\* -------------------------------------------- get_all_events_for_publisher
\* One iteration of the loop over os.listdir: what the partition adds to
\* all_events, or the exception that leaves the function.
ReadPartition(content) ==
    CASE content.kind \in {"absent", "unreadable", "unparseable", "falsy"} ->
            [error |-> "none", items |-> <<>>]
      [] content.kind = "scalar" ->
            [error |-> "TypeError", items |-> <<>>]
      [] content.kind = "list" /\ content.items = <<>> ->
            [error |-> "none", items |-> <<>>]
      [] OTHER ->
            [error |-> "none", items |-> content.items]

RECURSIVE ReadAll(_, _, _)
ReadAll(parts, listing, acc) ==
    IF listing = <<>> THEN [error |-> "none", items |-> acc]
    ELSE IF ~IsDigit(Head(listing)) THEN ReadAll(parts, Tail(listing), acc)
    ELSE LET r == ReadPartition(parts[Head(listing)])
         IN  IF r.error # "none" THEN [error |-> r.error, items |-> <<>>]
             ELSE ReadAll(parts, Tail(listing), acc \o r.items)

\* x.get('timestamp', '')
SortKey(ev) == ev.timestamp

\* list.sort(key=...) is stable: an element goes after every element whose
\* key is not greater than its own.
RECURSIVE InsertSorted(_, _)
InsertSorted(sorted, ev) ==
    IF sorted = <<>> THEN <<ev>>
    ELSE LET last == sorted[Len(sorted)]
         IN  IF StrLess(SortKey(ev), SortKey(last))
             THEN Append(InsertSorted(SubSeq(sorted, 1, Len(sorted) - 1), ev), last)
             ELSE Append(sorted, ev)

\* A reader that returns the events in the order of the partitions (used to
\* test the sorting property)
SortEventsKeepingFileOrder(evs) == evs

RECURSIVE SortEvents(_)
SortEvents(evs) ==
    IF evs = <<>> THEN <<>>
    ELSE InsertSorted(SortEvents(SubSeq(evs, 1, Len(evs) - 1)), evs[Len(evs)])

\* The whole function: [error, events].  pub is the publisher's directory:
\* [isdir, parts]; listing is the order os.listdir returns.
GetAllEventsForPublisher(pub, listing) ==
    IF ~pub.isdir THEN [error |-> "none", events |-> <<>>]
    ELSE LET r == ReadAll(pub.parts, listing, <<>>)
         IN  IF r.error # "none" THEN [error |-> r.error, events |-> <<>>]
             ELSE IF \E i \in 1..Len(r.items) : ~r.items[i].isdict
                  THEN [error |-> "AttributeError", events |-> <<>>]
                  ELSE [error |-> "none", events |-> SortEvents(r.items)]

\* ------------------------------------------------------- get_date_range
\* The loop body over one publisher's events: the new (min_date, max_date),
\* or the ValueError of strptime on a timestamp that is not in the format.
RECURSIVE ScanDates(_, _, _)
ScanDates(events, lo, hi) ==
    IF events = <<>> THEN [error |-> "none", min_date |-> lo, max_date |-> hi]
    ELSE LET ts == Head(events).timestamp
         IN  IF ts = NoTimestamp THEN ScanDates(Tail(events), lo, hi)
             ELSE IF ~WellFormed(ts)
                  THEN [error |-> "ValueError", min_date |-> lo, max_date |-> hi]
                  ELSE LET d == Strptime(ts)
                       IN  ScanDates(Tail(events),
                                     IF d < lo THEN d ELSE lo,
                                     IF d > hi THEN d ELSE hi)

\* return min_date, max_date if max_date > min_date else datetime.now()
DateRangeResult(lo, hi, now) ==
    [start |-> lo, end |-> IF hi > lo THEN hi ELSE now]

\* ------------------------------------------- create_blocking_timeseries
\* initial_content, for one bot: the flag bot_blocked after the inner loop
\* over the rules ("true" / "false"), or the exception raised by rule.get on
\* an entry that is not an object.
RECURSIVE ScanBaseline(_, _)
ScanBaseline(rules, bot) ==
    IF rules = <<>> THEN "false"
    ELSE IF ~Head(rules).isdict THEN "AttributeError"
    ELSE IF Head(rules).user_agent = bot /\ Truthy(Head(rules).disallow) THEN "true"
    ELSE ScanBaseline(Tail(rules), bot)

\* ProcessInitialContent recording a value only for the bots an entry names
ProcessInitialContentNamedOnly(hist, facet, T) ==
    IF facet.kind = "scalar" THEN [error |-> "TypeError", hist |-> hist]
    ELSE IF \E b \in BotSet : ScanBaseline(facet.items, b) = "AttributeError"
         THEN [error |-> "AttributeError", hist |-> hist]
         ELSE [error |-> "none",
               hist |-> [b \in BotSet |->
                           IF \E j \in 1..Len(facet.items) : facet.items[j].user_agent = b
                           THEN DictSet(hist[b], T, ScanBaseline(facet.items, b) = "true")
                           ELSE hist[b]]]

\* The whole initial_content facet of one event at instant T
ProcessInitialContent(hist, facet, T) ==
    IF facet.kind = "scalar" THEN [error |-> "TypeError", hist |-> hist]
    ELSE IF \E b \in BotSet : ScanBaseline(facet.items, b) = "AttributeError"
         THEN [error |-> "AttributeError", hist |-> hist]
         ELSE [error |-> "none",
               hist |-> [b \in BotSet |->
                           DictSet(hist[b], T, ScanBaseline(facet.items, b) = "true")]]

\* RuleChangeSignal without the test of allow: an allow-only change unblocks
RuleChangeSignalIgnoringAllow(rc) ==
    IF IsFullSiteDelta(rc.disallow) THEN "blocked"
    ELSE IF Truthy(rc.disallow) THEN "blocked"
    ELSE "unblocked"

\* One rule_changes entry: the value it records for its bot, or "none"
RuleChangeSignal(rc) ==
    IF IsFullSiteDelta(rc.disallow) THEN "blocked"
    ELSE IF Truthy(rc.disallow) THEN "blocked"
    ELSE IF ~Truthy(rc.disallow) /\ ~Truthy(rc.allow) THEN "unblocked"
    ELSE "none"

ProcessRuleChange(hist, rc, T) ==
    IF ~rc.isdict THEN [error |-> "AttributeError", hist |-> hist]
    ELSE IF rc.user_agent \notin BotSet \/ RuleChangeSignal(rc) = "none"
         THEN [error |-> "none", hist |-> hist]
         ELSE [error |-> "none",
               hist |-> [hist EXCEPT ![rc.user_agent] =
                           DictSet(@, T, RuleChangeSignal(rc) = "blocked")]]

\* One agents_added entry: the scan of every event of the timeline that has
\* the same timestamp string, for a rule change of that agent with a disallow.
RECURSIVE ScanRuleChanges(_, _, _)
ScanRuleChanges(items, agent, found) ==
    IF items = <<>> THEN [error |-> "none", found |-> found]
    ELSE IF ~Head(items).isdict THEN [error |-> "AttributeError", found |-> found]
    ELSE ScanRuleChanges(Tail(items), agent,
            \/ found
            \/ /\ Head(items).user_agent = agent
               /\ (IsFullSiteDelta(Head(items).disallow) \/ Truthy(Head(items).disallow)))

\* ScanTimeline that also reads the rule changes of the events without a
\* timestamp (used to test that such events are ignored)
RECURSIVE ScanTimelineAndUndated(_, _, _, _)
ScanTimelineAndUndated(timeline, ts, agent, found) ==
    IF timeline = <<>> THEN [error |-> "none", found |-> found]
    ELSE IF Head(timeline).timestamp # ts /\ Head(timeline).timestamp # NoTimestamp
         THEN ScanTimelineAndUndated(Tail(timeline), ts, agent, found)
    ELSE IF Head(timeline).rule_changes.kind = "scalar"
         THEN [error |-> "TypeError", found |-> found]
         ELSE LET r == ScanRuleChanges(Head(timeline).rule_changes.items, agent, found)
              IN  IF r.error # "none" THEN r
                  ELSE ScanTimelineAndUndated(Tail(timeline), ts, agent, r.found)

RECURSIVE ScanTimeline(_, _, _, _)
ScanTimeline(timeline, ts, agent, found) ==
    IF timeline = <<>> THEN [error |-> "none", found |-> found]
    ELSE IF Head(timeline).timestamp # ts THEN ScanTimeline(Tail(timeline), ts, agent, found)
    ELSE IF Head(timeline).rule_changes.kind = "scalar"
         THEN [error |-> "TypeError", found |-> found]
         ELSE LET r == ScanRuleChanges(Head(timeline).rule_changes.items, agent, found)
              IN  IF r.error # "none" THEN r
                  ELSE ScanTimeline(Tail(timeline), ts, agent, r.found)

ProcessAgentAdded(hist, timeline, ts, agent, T) ==
    IF agent \notin BotSet THEN [error |-> "none", hist |-> hist]
    ELSE LET r == ScanTimeline(timeline, ts, agent, FALSE)
         IN  IF r.error # "none" THEN [error |-> r.error, hist |-> hist]
             ELSE IF r.found
                  THEN [error |-> "none",
                        hist |-> [hist EXCEPT ![agent] = DictSet(@, T, TRUE)]]
                  ELSE [error |-> "none", hist |-> hist]

\* A removal recorded one instant before its event (used to test the order
\* in which transitions are created)
ProcessAgentRemovedBackdated(hist, agent, T) ==
    IF agent \in BotSet
    THEN [hist EXCEPT ![agent] = DictSet(@, T - 1, FALSE)]
    ELSE hist

\* One agents_removed entry
ProcessAgentRemoved(hist, agent, T) ==
    IF agent \in BotSet
    THEN [hist EXCEPT ![agent] = DictSet(@, T, FALSE)]
    ELSE hist

\* sorted(..., reverse=True)
RECURSIVE SortedReverse(_)
SortedReverse(S) ==
    IF S = {} THEN <<>>
    ELSE LET m == CHOOSE x \in S : \A y \in S : y <= x
         IN  <<m>> \o SortedReverse(S \ {m})

\* LastKnownState with the day bound exclusive: d.date() < current_date.date()
LastKnownStateBeforeDay(h, day) ==
    LET sorted_dates == SortedReverse({d \in DictKeys(h) : DateOf(d) < day})
    IN  IF sorted_dates # <<>>
        THEN (IF DictGet(h, Head(sorted_dates)) THEN 1 ELSE 0)
        ELSE 0

\* The last known state of a bot on or before a day: 1 or 0
LastKnownState(h, day) ==
    LET sorted_dates == SortedReverse({d \in DictKeys(h) : DateOf(d) <= day})
    IN  IF sorted_dates # <<>>
        THEN (IF DictGet(h, Head(sorted_dates)) THEN 1 ELSE 0)
        ELSE 0

\* The rows written for one publisher: for each day_delta, for each bot
DailyRecords(publisher, hist, start_date, end_date) ==
    LET total_days == TimedeltaDays(end_date, start_date)
        nbots == Len(Bots)
    IN  [n \in 1..((total_days + 1) * nbots) |->
            LET day_delta == (n - 1) \div nbots
                bot == Bots[((n - 1) % nbots) + 1]
                current_date == start_date + day_delta * TodPerDay
            IN  [date |-> DateOf(current_date),
                 publisher |-> publisher,
                 bot_name |-> bot,
                 bot_category |-> BotCategories(bot),
                 is_blocked |-> LastKnownState(hist[bot], DateOf(current_date))]]

\* The bots printed as blocked in the final status of one publisher
BlockedBotsForPublisher(hist, end_date) ==
    SelectSeq(Bots, LAMBDA b : LastKnownState(hist[b], DateOf(end_date)) = 1)

\* ------------------------------------------------------------------ state
VARIABLES
    files,                \* publisher -> [isdir, parts: year -> file content]
    clock,                \* the wall clock: the value of the last datetime.now()
    run,                  \* "first" or "second" run of main on the same files
    prevOut,              \* the output file as the first run left it
    pc,                   \* where main is
    min_date, max_date,   \* locals of get_date_range
    window,               \* (start_date, end_date) as returned to main
    pubIdx,               \* index of the publisher of the running loop
    timeline_data,        \* the merged events of the current publisher
    evIdx, entryIdx,      \* the event, and the entry of its facet, in process
    bot_blocking_history, \* bot -> dict of instant -> bool
    out,                  \* the rows of the output file
    printed,              \* the final blocking status printed, per publisher
    error, raisedIn       \* the uncaught exception and the function raising it

vars == <<files, clock, run, prevOut, pc, min_date, max_date, window, pubIdx,
          timeline_data, evIdx, entryIdx, bot_blocking_history, out, printed,
          error, raisedIn>>

MaxClock == (MaxDay + 2) * TodPerDay - 1
EmptyHistory == [b \in BotSet |-> <<>>]
NoWindow == [start |-> Epoch, end |-> Epoch]

CurEvent == timeline_data[evIdx]
EventDate == Strptime(CurEvent.timestamp)

Raise(exc, fn) ==
    /\ pc' = "aborted"
    /\ error' = exc
    /\ raisedIn' = fn

\* ------------------------------------------------------------ get_date_range
\* min_date = datetime.now(); max_date = datetime(1970, 1, 1)
GdrStart ==
    /\ pc = "main"
    /\ min_date' = clock
    /\ max_date' = Epoch
    /\ pubIdx' = 1
    /\ pc' = "range"
    /\ UNCHANGED <<files, clock, run, prevOut, window, timeline_data, evIdx,
                   entryIdx, bot_blocking_history, out, printed, error, raisedIn>>

\* One iteration of "for publisher in publishers"
GdrScan ==
    /\ pc = "range"
    /\ pubIdx <= Len(Publishers)
    /\ \E listing \in Listings :
         LET r == GetAllEventsForPublisher(files[Publishers[pubIdx]], listing)
             s == ScanDates(r.events, min_date, max_date)
         IN  IF r.error # "none"
             THEN /\ Raise(r.error, "get_all_events_for_publisher")
                  /\ UNCHANGED <<min_date, max_date, pubIdx>>
             ELSE IF s.error # "none"
             THEN /\ Raise(s.error, "get_date_range")
                  /\ UNCHANGED <<min_date, max_date, pubIdx>>
             ELSE /\ min_date' = s.min_date
                  /\ max_date' = s.max_date
                  /\ pubIdx' = pubIdx + 1
                  /\ UNCHANGED <<pc, error, raisedIn>>
    /\ UNCHANGED <<files, clock, run, prevOut, window, timeline_data, evIdx,
                   entryIdx, bot_blocking_history, out, printed>>

\* The return statement; datetime.now() is read again only in the else branch
GdrReturn ==
    /\ pc = "range"
    /\ pubIdx > Len(Publishers)
    /\ \E now \in {n \in {clock, clock + 1} : n <= MaxClock} :
         /\ window' = DateRangeResult(min_date, max_date, now)
         /\ clock' = IF max_date > min_date THEN clock ELSE now
    /\ pc' = "open"
    /\ UNCHANGED <<files, run, prevOut, min_date, max_date, pubIdx, timeline_data,
                   evIdx, entryIdx, bot_blocking_history, out, printed, error, raisedIn>>

\* ------------------------------------------------ create_blocking_timeseries
\* open(output_file, 'w') and the header row
OpenOutput ==
    /\ pc = "open"
    /\ out' = <<>>
    /\ pubIdx' = 1
    /\ pc' = "publisher"
    /\ UNCHANGED <<files, clock, run, prevOut, min_date, max_date, window,
                   timeline_data, evIdx, entryIdx, bot_blocking_history, printed,
                   error, raisedIn>>

\* The head of "for publisher in publishers": a fresh history and the timeline
LoadTimeline ==
    /\ pc = "publisher"
    /\ pubIdx <= Len(Publishers)
    /\ \E listing \in Listings :
         LET r == GetAllEventsForPublisher(files[Publishers[pubIdx]], listing)
         IN  IF r.error # "none"
             THEN /\ Raise(r.error, "get_all_events_for_publisher")
                  /\ UNCHANGED <<timeline_data, evIdx>>
             ELSE /\ timeline_data' = r.events
                  /\ evIdx' = 1
                  /\ pc' = "event"
                  /\ UNCHANGED <<error, raisedIn>>
    /\ bot_blocking_history' = EmptyHistory
    /\ UNCHANGED <<files, clock, run, prevOut, min_date, max_date, window, pubIdx,
                   entryIdx, out, printed>>

\* The head of "for event in timeline_data": the timestamp check and strptime
NextEvent ==
    /\ pc = "event"
    /\ IF evIdx > Len(timeline_data)
       THEN /\ pc' = "daily"
            /\ UNCHANGED <<evIdx, error, raisedIn>>
       ELSE IF CurEvent.timestamp = NoTimestamp
       THEN /\ evIdx' = evIdx + 1
            /\ UNCHANGED <<pc, error, raisedIn>>
       ELSE IF ~WellFormed(CurEvent.timestamp)
       THEN /\ Raise("ValueError", "create_blocking_timeseries")
            /\ UNCHANGED evIdx
       ELSE /\ pc' = "initial_content"
            /\ UNCHANGED <<evIdx, error, raisedIn>>
    /\ UNCHANGED <<files, clock, run, prevOut, min_date, max_date, window, pubIdx,
                   timeline_data, entryIdx, bot_blocking_history, out, printed>>

\* if 'initial_content' in event: ...
InitialContent ==
    /\ pc = "initial_content"
    /\ LET r == ProcessInitialContent(bot_blocking_history,
                                      CurEvent.initial_content, EventDate)
       IN  IF CurEvent.initial_content.kind = "absent"
           THEN /\ pc' = "rule_changes"
                /\ UNCHANGED <<bot_blocking_history, error, raisedIn>>
           ELSE IF r.error # "none"
           THEN /\ Raise(r.error, "create_blocking_timeseries")
                /\ UNCHANGED bot_blocking_history
           ELSE /\ bot_blocking_history' = r.hist
                /\ pc' = "rule_changes"
                /\ UNCHANGED <<error, raisedIn>>
    /\ entryIdx' = 1
    /\ UNCHANGED <<files, clock, run, prevOut, min_date, max_date, window, pubIdx,
                   timeline_data, evIdx, out, printed>>

\* if 'rule_changes' in event: one iteration of the loop over its entries
RuleChanges ==
    /\ pc = "rule_changes"
    /\ LET facet == CurEvent.rule_changes
       IN  IF facet.kind = "scalar"
           THEN /\ Raise("TypeError", "create_blocking_timeseries")
                /\ UNCHANGED <<bot_blocking_history, entryIdx>>
           ELSE IF entryIdx > Len(facet.items)
           THEN /\ pc' = "agents_added"
                /\ entryIdx' = 1
                /\ UNCHANGED <<bot_blocking_history, error, raisedIn>>
           ELSE LET r == ProcessRuleChange(bot_blocking_history,
                                           facet.items[entryIdx], EventDate)
                IN  IF r.error # "none"
                    THEN /\ Raise(r.error, "create_blocking_timeseries")
                         /\ UNCHANGED <<bot_blocking_history, entryIdx>>
                    ELSE /\ bot_blocking_history' = r.hist
                         /\ entryIdx' = entryIdx + 1
                         /\ UNCHANGED <<pc, error, raisedIn>>
    /\ UNCHANGED <<files, clock, run, prevOut, min_date, max_date, window, pubIdx,
                   timeline_data, evIdx, out, printed>>

\* if 'agents_added' in event: one iteration of the loop over its agents
AgentsAdded ==
    /\ pc = "agents_added"
    /\ LET facet == CurEvent.agents_added
       IN  IF facet.kind = "scalar"
           THEN /\ Raise("TypeError", "create_blocking_timeseries")
                /\ UNCHANGED <<bot_blocking_history, entryIdx>>
           ELSE IF entryIdx > Len(facet.items)
           THEN /\ pc' = "agents_removed"
                /\ entryIdx' = 1
                /\ UNCHANGED <<bot_blocking_history, error, raisedIn>>
           ELSE LET r == ProcessAgentAdded(bot_blocking_history, timeline_data,
                                           CurEvent.timestamp, facet.items[entryIdx],
                                           EventDate)
                IN  IF r.error # "none"
                    THEN /\ Raise(r.error, "create_blocking_timeseries")
                         /\ UNCHANGED <<bot_blocking_history, entryIdx>>
                    ELSE /\ bot_blocking_history' = r.hist
                         /\ entryIdx' = entryIdx + 1
                         /\ UNCHANGED <<pc, error, raisedIn>>
    /\ UNCHANGED <<files, clock, run, prevOut, min_date, max_date, window, pubIdx,
                   timeline_data, evIdx, out, printed>>

\* if 'agents_removed' in event: one iteration of the loop over its agents
AgentsRemoved ==
    /\ pc = "agents_removed"
    /\ LET facet == CurEvent.agents_removed
       IN  IF facet.kind = "scalar"
           THEN /\ Raise("TypeError", "create_blocking_timeseries")
                /\ UNCHANGED <<bot_blocking_history, entryIdx, evIdx>>
           ELSE IF entryIdx > Len(facet.items)
           THEN /\ pc' = "event"
                /\ evIdx' = evIdx + 1
                /\ entryIdx' = 1
                /\ UNCHANGED <<bot_blocking_history, error, raisedIn>>
           ELSE /\ bot_blocking_history' =
                     ProcessAgentRemoved(bot_blocking_history, facet.items[entryIdx],
                                         EventDate)
                /\ entryIdx' = entryIdx + 1
                /\ UNCHANGED <<pc, evIdx, error, raisedIn>>
    /\ UNCHANGED <<files, clock, run, prevOut, min_date, max_date, window, pubIdx,
                   timeline_data, out, printed>>

\* "Generate daily status": the rows of the current publisher
GenerateDaily ==
    /\ pc = "daily"
    /\ out' = out \o DailyRecords(Publishers[pubIdx], bot_blocking_history,
                                  window.start, window.end)
    /\ pc' = "summary"
    /\ UNCHANGED <<files, clock, run, prevOut, min_date, max_date, window, pubIdx,
                   timeline_data, evIdx, entryIdx, bot_blocking_history, printed,
                   error, raisedIn>>

\* "Print out the final blocking status for the publisher"
PrintSummary ==
    /\ pc = "summary"
    /\ printed' = Append(printed,
                         [publisher |-> Publishers[pubIdx],
                          blocked |-> BlockedBotsForPublisher(bot_blocking_history,
                                                              window.end)])
    /\ pubIdx' = pubIdx + 1
    /\ pc' = "publisher"
    /\ UNCHANGED <<files, clock, run, prevOut, min_date, max_date, window,
                   timeline_data, evIdx, entryIdx, bot_blocking_history, out,
                   error, raisedIn>>

\* The publisher loop is exhausted: the file is closed, main returns
Finish ==
    /\ pc = "publisher"
    /\ pubIdx > Len(Publishers)
    /\ pc' = "done"
    /\ UNCHANGED <<files, clock, run, prevOut, min_date, max_date, window, pubIdx,
                   timeline_data, evIdx, entryIdx, bot_blocking_history, out,
                   printed, error, raisedIn>>

\* A second run of main on the same files, at the same or a later time
Rerun ==
    /\ pc = "done"
    /\ run = "first"
    /\ run' = "second"
    /\ prevOut' = out
    /\ \E now \in clock..MaxClock : clock' = now
    /\ pc' = "main"
    /\ min_date' = Epoch
    /\ max_date' = Epoch
    /\ window' = NoWindow
    /\ pubIdx' = 1
    /\ timeline_data' = <<>>
    /\ evIdx' = 1
    /\ entryIdx' = 1
    /\ bot_blocking_history' = EmptyHistory
    /\ printed' = <<>>
    /\ UNCHANGED <<files, out, error, raisedIn>>

\* ----------------------------------------------------------------- inputs
GPT == "GPTBot"
Google == "Googlebot"
Other == "OtherBot"
SomePath == <<"/private/">>

Dir(c2023, c2024) ==
    [isdir |-> TRUE, parts |-> [y \in Years |-> IF y = "2023" THEN c2023 ELSE c2024]]
NoDir == [isdir |-> FALSE, parts |-> [y \in Years |-> FileAbsent]]
Input(p1, p2) == [p \in {"p1", "p2"} |-> IF p = "p1" THEN p1 ELSE p2]

DisallowValues ==
    {Absent, Plain(<<>>), Plain(SomePath), Delta({}, <<>>),
     Delta({"added"}, <<FullSitePattern>>), Delta({"removed"}, <<>>)}
AllowValues == {Absent, Plain(SomePath)}

BaselineOptions ==
    {NoFacet, List(<<>>),
     List(<<Rule(GPT, Plain(SomePath), Absent)>>),
     List(<<Rule(GPT, Absent, Plain(SomePath))>>),
     List(<<Rule(Other, Plain(SomePath), Absent)>>),
     List(<<Rule(GPT, Absent, Absent), Rule(GPT, Plain(SomePath), Absent)>>)}
RuleChangeOptions ==
    {NoFacet}
    \cup {List(<<Rule(GPT, d, a)>>) : d \in DisallowValues, a \in AllowValues}
    \cup {List(<<Rule(Other, Plain(SomePath), Absent)>>),
          List(<<Rule(Google, Plain(SomePath), Absent)>>),
          List(<<Rule(GPT, Plain(SomePath), Absent), Rule(GPT, Absent, Absent)>>)}
AddedOptions == {NoFacet, List(<<GPT>>), List(<<Other>>)}
RemovedOptions == {NoFacet, List(<<GPT>>), List(<<Other, Google>>)}

FirstInstant == <<0, 1, 0>>
LaterInstant == <<0, 1, 1>>

\* An earlier event that blocks both bots
BlockBoth(ts) ==
    Event(ts, NoFacet,
          List(<<Rule(GPT, Plain(SomePath), Absent), Rule(Google, Plain(SomePath), Absent)>>),
          NoFacet, NoFacet)

\* One event with every combination of facets, alone or after an earlier block
FacetInputs ==
    {Input(Dir(FileList(prior \o <<Event(LaterInstant, ic, rc, aa, ar)>>), FileAbsent), NoDir) :
        prior \in {<<>>, <<BlockBoth(FirstInstant)>>},
        ic \in BaselineOptions, rc \in RuleChangeOptions,
        aa \in AddedOptions, ar \in RemovedOptions}

\* Two events, one per year partition, at equal or different instants
PairFacets ==
    {<<List(<<Rule(GPT, Plain(SomePath), Absent)>>), NoFacet, NoFacet, NoFacet>>,
     <<List(<<Rule(Other, Plain(SomePath), Absent)>>), NoFacet, NoFacet, NoFacet>>,
     <<NoFacet, List(<<Rule(GPT, Plain(SomePath), Absent)>>), NoFacet, NoFacet>>,
     <<NoFacet, List(<<Rule(GPT, Absent, Absent)>>), NoFacet, NoFacet>>,
     <<NoFacet, List(<<Rule(GPT, Absent, Plain(SomePath))>>), NoFacet, NoFacet>>,
     <<NoFacet, NoFacet, List(<<GPT>>), NoFacet>>,
     <<NoFacet, List(<<Rule(GPT, Absent, Absent)>>), List(<<GPT>>), NoFacet>>,
     <<NoFacet, NoFacet, NoFacet, List(<<GPT>>)>>}
PairTimestamps == {NoTimestamp, FirstInstant, LaterInstant}
PairEvents ==
    {Event(ts, f[1], f[2], f[3], f[4]) : ts \in PairTimestamps, f \in PairFacets}
PairInputs ==
    {Input(Dir(FileList(<<e1>>), FileList(<<e2>>)), NoDir) :
        e1 \in PairEvents, e2 \in PairEvents}

\* A well-formed event beside an event with a malformed part
MalformedEvents ==
    {Event(BadTimestamp, NoFacet, NoFacet, NoFacet, List(<<GPT>>))}
    \cup {Event(ts, f[1], f[2], f[3], f[4]) :
            ts \in {FirstInstant, LaterInstant},
            f \in {<<Scalar, NoFacet, NoFacet, NoFacet>>,
                   <<List(<<NotARule>>), NoFacet, NoFacet, NoFacet>>,
                   <<NoFacet, Scalar, NoFacet, NoFacet>>,
                   <<NoFacet, List(<<Rule(Google, Plain(SomePath), Absent), NotARule>>),
                     NoFacet, NoFacet>>,
                   <<NoFacet, NoFacet, Scalar, NoFacet>>,
                   <<NoFacet, NoFacet, NoFacet, Scalar>>}}
MalformedInputs ==
    {Input(Dir(FileList(<<Event(FirstInstant, f[1], f[2], f[3], f[4])>>), FileList(<<bad>>)),
           Dir(FileList(<<BlockBoth(FirstInstant)>>), FileAbsent)) :
        f \in {<<NoFacet, List(<<Rule(GPT, Plain(SomePath), Absent)>>), NoFacet, NoFacet>>,
               <<NoFacet, NoFacet, List(<<GPT>>), NoFacet>>,
               <<NoFacet, NoFacet, NoFacet, List(<<Google>>)>>},
        bad \in MalformedEvents}

\* Events at every instant, for the window and the daily grid
Block(ts) == Event(ts, NoFacet, List(<<Rule(GPT, Plain(SomePath), Absent)>>), NoFacet, NoFacet)
Unblock(ts) == Event(ts, NoFacet, NoFacet, NoFacet, List(<<GPT>>))
WindowTimestamps == ValidTimestamps \cup {NoTimestamp}
WindowInputs ==
    {Input(Dir(FileList(evs), FileAbsent), p2) :
        evs \in {<<>>}
                \cup {<<Block(t)>> : t \in WindowTimestamps}
                \cup {<<Block(t), Unblock(u)>> : t, u \in WindowTimestamps},
        p2 \in {NoDir, Dir(FileList(<<Block(LaterInstant)>>), FileAbsent)}}
ClockValues == TodPerDay..MaxClock

\* A canonical timestamp beside a timestamp with an unpadded day
UnpaddedInputs ==
    {Input(Dir(FileList(<<Block(t), Unblock(u)>>), FileAbsent), NoDir) :
        t \in ValidTimestamps, u \in UnpaddedTimestamps}

\* Year partitions of every kind
FileContents ==
    {FileAbsent, FileUnreadable, FileUnparseable, FileFalsy, FileScalar, FileObject,
     FileList(<<Block(LaterInstant)>>),
     FileList(<<Unblock(LaterInstant), NotAnEvent>>),
     FileList(<<Unblock(NoTimestamp), Block(FirstInstant)>>),
     FileList(<<Unblock(LaterInstant), Unblock(NoTimestamp)>>)}
ReaderInputs ==
    {Input(Dir(a, b), p2) :
        a \in FileContents, b \in FileContents,
        p2 \in {NoDir, Dir(FileUnparseable, FileList(<<Block(FirstInstant)>>)),
                Dir(FileObject, FileAbsent)}}

Init ==
    /\ \/ /\ files \in FacetInputs \cup PairInputs \cup MalformedInputs \cup ReaderInputs
                       \cup UnpaddedInputs
          /\ clock = MaxClock
       \/ /\ files \in WindowInputs
          /\ clock \in ClockValues
    /\ run = "first"
    /\ prevOut = <<>>
    /\ pc = "main"
    /\ min_date = Epoch
    /\ max_date = Epoch
    /\ window = NoWindow
    /\ pubIdx = 1
    /\ timeline_data = <<>>
    /\ evIdx = 1
    /\ entryIdx = 1
    /\ bot_blocking_history = EmptyHistory
    /\ out = <<>>
    /\ printed = <<>>
    /\ error = "none"
    /\ raisedIn = "none"

Step ==
    \/ GdrStart
    \/ GdrScan
    \/ GdrReturn
    \/ OpenOutput
    \/ LoadTimeline
    \/ NextEvent
    \/ InitialContent
    \/ RuleChanges
    \/ AgentsAdded
    \/ AgentsRemoved
    \/ GenerateDaily
    \/ PrintSummary
    \/ Finish

Next == Step

Spec == Init /\ [][Next]_vars

\* The same program run twice on unchanged files
NextTwice == Step \/ Rerun

SpecTwice == Init /\ [][NextTwice]_vars

\* ----------------------------------------------------------------- claims
CurPublisher == Publishers[pubIdx]
History(b) == bot_blocking_history[b]
\* The rows of the output written for the publisher whose loop body is running
RowsOf(p) == {i \in 1..Len(out) : out[i].publisher = p}
SetMax(S) == CHOOSE x \in S : \A y \in S : y <= x
SetMin(S) == CHOOSE x \in S : \A y \in S : x <= y

\* C1: once the daily rows of a publisher are written, there is exactly one
\* row for every tracked bot and every calendar day from the date of the
\* window's start to the date of its end, inclusive.
C1_OneRowPerBotAndDay ==
    pc = "summary" =>
        \A b \in BotSet :
            \A d \in DateOf(window.start)..DateOf(window.end) :
                Cardinality({i \in RowsOf(CurPublisher) :
                                out[i].bot_name = b /\ out[i].date = d}) = 1

\* C2: every row written for a bot and a day holds the value of the bot's
\* transition with the greatest instant dated on or before that day, and 0
\* when there is none; hence 0 on every day before the first transition and V
\* from the day of a transition with value V up to the day before the next.
C2_ForwardFill ==
    pc = "summary" =>
        \A i \in RowsOf(CurPublisher) :
            LET h == History(out[i].bot_name)
                upTo == {T \in DictKeys(h) : DateOf(T) <= out[i].date}
            IN  /\ out[i].is_blocked \in {0, 1}
                /\ upTo = {} => out[i].is_blocked = 0
                /\ upTo # {} => (out[i].is_blocked = 1) = DictGet(h, SetMax(upTo))
                /\ (\A T \in DictKeys(h) : out[i].date < DateOf(T)) => out[i].is_blocked = 0
                /\ \A T \in DictKeys(h) :
                      (/\ DateOf(T) <= out[i].date
                       /\ \A U \in DictKeys(h) : U > T => out[i].date < DateOf(U))
                      => (out[i].is_blocked = 1) = DictGet(h, T)

\* C2 witness: rows of one bot that are 0 before its first transition, 1 from
\* a blocking transition and 0 again from a later unblocking one.
C2_Witness ==
    /\ pc = "summary"
    /\ Len(History(GPT)) >= 2
    /\ \E i, j, k \in RowsOf(CurPublisher) :
          /\ out[i].bot_name = GPT /\ out[j].bot_name = GPT /\ out[k].bot_name = GPT
          /\ out[i].date < out[j].date /\ out[j].date < out[k].date
          /\ out[i].is_blocked = 0 /\ out[j].is_blocked = 1 /\ out[k].is_blocked = 0

\* C3: after the replay of a publisher's timeline, every agents_removed entry
\* naming a tracked bot in an event with instant T has left the bot's state at
\* T unblocked.
C3_RemovedIsUnblocked ==
    pc = "daily" =>
        \A i \in 1..Len(timeline_data) :
            LET ev == timeline_data[i]
            IN  (ev.timestamp # NoTimestamp /\ ev.agents_removed.kind = "list") =>
                    \A j \in 1..Len(ev.agents_removed.items) :
                        LET b == ev.agents_removed.items[j]
                        IN  b \in BotSet =>
                                /\ DictHas(History(b), Strptime(ev.timestamp))
                                /\ DictGet(History(b), Strptime(ev.timestamp)) = FALSE

\* The state of bot b after a step that records value v at instant T and
\* changes no other transition
Recorded(b, T, v) ==
    /\ DictKeys(History(b)') = DictKeys(History(b)) \cup {T}
    /\ DictGet(History(b)', T) = v
    /\ \A U \in DictKeys(History(b)) \ {T} : DictGet(History(b)', U) = DictGet(History(b), U)

\* C4 as claimed: the initial_content step of an event with instant T records
\* true at T for a tracked bot that an entry names with a non-empty disallow,
\* false at T for a bot named only without disallow, and leaves the state of a
\* bot that no entry names unchanged.
C4_BaselineSkipsUnnamedBots ==
    [][(/\ pc = "initial_content"
        /\ CurEvent.initial_content.kind = "list"
        /\ pc' = "rule_changes")
       => \A b \in BotSet : \A T \in {EventDate} :
            LET rules == CurEvent.initial_content.items
                named == {j \in 1..Len(rules) : rules[j].user_agent = b}
            IN  IF \E j \in named : Truthy(rules[j].disallow)
                THEN Recorded(b, T, TRUE)
                ELSE IF named # {}
                THEN Recorded(b, T, FALSE)
                ELSE History(b)' = History(b)]_vars

\* C4 as amended: the initial_content step of an event with instant T records
\* a value at T for every tracked bot: true when an entry names the bot with
\* a non-empty disallow, false otherwise, also for a bot that no entry names;
\* no transition at another instant changes.
C4_BaselineRecordsEveryBot ==
    [][(/\ pc = "initial_content"
        /\ CurEvent.initial_content.kind = "list"
        /\ pc' = "rule_changes")
       => \A b \in BotSet : \A T \in {EventDate} :
            LET rules == CurEvent.initial_content.items
                named == {j \in 1..Len(rules) : rules[j].user_agent = b}
            IN  IF \E j \in named : Truthy(rules[j].disallow)
                THEN Recorded(b, T, TRUE)
                ELSE Recorded(b, T, FALSE)]_vars

\* C4 witness: a baseline that names no tracked bot has been processed after
\* an earlier event blocked a bot, and the bot is now unblocked at the
\* baseline's instant.
C4_Witness ==
    /\ pc = "rule_changes"
    /\ entryIdx = 1
    /\ CurEvent.initial_content.kind = "list"
    /\ \A j \in 1..Len(CurEvent.initial_content.items) :
          CurEvent.initial_content.items[j].user_agent \notin BotSet
    /\ \E U \in DictKeys(History(Google)) :
          U < EventDate /\ DictGet(History(Google), U) = TRUE
    /\ DictHas(History(Google), EventDate)
    /\ DictGet(History(Google), EventDate) = FALSE

\* C5: a rule_changes entry naming a tracked bot records true at the event's
\* instant when its disallow is the full-site delta (whatever allow is), else
\* true when its disallow is truthy, else false when neither allow nor
\* disallow is truthy, and else (allow only) records nothing; no other bot's
\* state changes.
C5_RuleChangeResolution ==
    [][(/\ pc = "rule_changes"
        /\ CurEvent.rule_changes.kind = "list"
        /\ entryIdx <= Len(CurEvent.rule_changes.items)
        /\ CurEvent.rule_changes.items[entryIdx].isdict
        /\ CurEvent.rule_changes.items[entryIdx].user_agent \in BotSet)
       => \A b \in BotSet : \A T \in {EventDate} :
            LET rc == CurEvent.rule_changes.items[entryIdx]
                fullSite == /\ rc.disallow.type = "dict"
                            /\ "added" \in rc.disallow.keys
                            /\ rc.disallow.added = <<FullSitePattern>>
            IN  IF b # rc.user_agent THEN History(b)' = History(b)
                ELSE IF fullSite THEN Recorded(b, T, TRUE)
                ELSE IF Truthy(rc.disallow) THEN Recorded(b, T, TRUE)
                ELSE IF ~Truthy(rc.allow) THEN Recorded(b, T, FALSE)
                ELSE History(b)' = History(b)]_vars

\* C5 witness: an allow-only entry for a bot blocked by an earlier event has
\* been processed and the bot has no transition at the event's instant.
C5_Witness ==
    /\ pc = "rule_changes"
    /\ entryIdx = 2
    /\ CurEvent.rule_changes.items[1].user_agent = GPT
    /\ Truthy(CurEvent.rule_changes.items[1].allow)
    /\ ~Truthy(CurEvent.rule_changes.items[1].disallow)
    /\ History(GPT) # <<>>
    /\ ~DictHas(History(GPT), EventDate)

\* C6: an agents_added entry for a tracked bot records true at the event's
\* instant exactly when the same event carries a rule_changes entry for that
\* bot with a disallow; otherwise the step leaves every state unchanged.
C6_AddedNeedsOwnRuleChange ==
    [][(/\ pc = "agents_added"
        /\ CurEvent.agents_added.kind = "list"
        /\ entryIdx <= Len(CurEvent.agents_added.items)
        /\ CurEvent.agents_added.items[entryIdx] \in BotSet
        /\ pc' # "aborted")
       => \A b \in BotSet : \A T \in {EventDate} :
            LET own == CurEvent.rule_changes.items
            IN  IF /\ b = CurEvent.agents_added.items[entryIdx]
                   /\ \E j \in 1..Len(own) :
                         /\ own[j].user_agent = b
                         /\ (IsFullSiteDelta(own[j].disallow) \/ Truthy(own[j].disallow))
                THEN Recorded(b, T, TRUE)
                ELSE History(b)' = History(b)]_vars

\* A partition that is a list of event objects, and the events such partitions hold
ValidPartition(c) == c.kind = "list" /\ \A k \in 1..Len(c.items) : c.items[k].isdict
RECURSIVE SumLen(_, _)
SumLen(parts, ys) ==
    IF ys = {} THEN 0
    ELSE LET y == CHOOSE y \in ys : TRUE
         IN  (IF ValidPartition(parts[y]) THEN Len(parts[y].items) ELSE 0)
             + SumLen(parts, ys \ {y})

\* C7: get_all_events_for_publisher raises nothing, and the timeline it
\* returns holds every event of every partition that is a list of objects and
\* nothing else.
C7_ReaderNeverAborts ==
    /\ raisedIn # "get_all_events_for_publisher"
    /\ (pc = "event" /\ files[CurPublisher].isdir) =>
          LET parts == files[CurPublisher].parts
          IN  /\ \A y \in Years : ValidPartition(parts[y]) =>
                    \A k \in 1..Len(parts[y].items) :
                        \E n \in 1..Len(timeline_data) : timeline_data[n] = parts[y].items[k]
              /\ Len(timeline_data) = SumLen(parts, Years)

\* C8: the replay never aborts on a malformed payload.
C8_InterpreterNeverAborts ==
    raisedIn # "create_blocking_timeseries"

\* The instants of all timestamped events of all publishers' files
AllInstants ==
    {Strptime(ts) : ts \in
        {ts \in UNION {{files[Publishers[p]].parts[y].items[k].timestamp :
                          k \in 1..Len(files[Publishers[p]].parts[y].items)} :
                       p \in {q \in 1..Len(Publishers) : files[Publishers[q]].isdir},
                       y \in Years} :
            ts # NoTimestamp}}

\* C9: when some event carries a timestamp, the window returned by
\* get_date_range starts at the smallest and ends at the largest timestamp of
\* all events of all publishers.
C9_WindowIsMinMax ==
    (pc = "open" /\ AllInstants # {}) =>
        /\ window.start = SetMin(AllInstants)
        /\ window.end = SetMax(AllInstants)

\* C10: a second run on the same files writes the same output as the first.
C10_SameOutputTwice ==
    (run = "second" /\ pc = "done") => out = prevOut

\* The orders in which the year partitions can be met, and the events of the
\* partitions of a publisher's directory concatenated in one such order
YearOrders ==
    {o \in [1..Cardinality(Years) -> Years] :
        \A i, j \in 1..Cardinality(Years) : o[i] = o[j] => i = j}
RECURSIVE Concatenation(_, _)
Concatenation(pub, order) ==
    IF ~pub.isdir \/ order = <<>> THEN <<>>
    ELSE (IF pub.parts[Head(order)].kind = "list"
          THEN pub.parts[Head(order)].items ELSE <<>>)
         \o Concatenation(pub, Tail(order))
Occurrences(e, s) == Cardinality({i \in 1..Len(s) : s[i] = e})

\* C11: the timeline returned for a publisher is a permutation of the
\* concatenation of the events of its year partitions, is non-decreasing in
\* timestamp over the whole sequence, keeps events with equal timestamps in
\* the order in which they were met, and has every event without a timestamp
\* before every event with one.
C11_MergedTimelineSortedStable ==
    pc = "event" =>
        \E order \in YearOrders :
            LET cat == Concatenation(files[CurPublisher], order)
                tl == timeline_data
            IN  /\ Len(tl) = Len(cat)
                /\ \A i \in 1..Len(cat) : Occurrences(cat[i], tl) = Occurrences(cat[i], cat)
                /\ \A i, j \in 1..Len(tl) :
                      i < j => ~StrLess(tl[j].timestamp, tl[i].timestamp)
                /\ \A n \in 1..Len(tl) :
                      SelectSeq(tl, LAMBDA e : e.timestamp = tl[n].timestamp)
                        = SelectSeq(cat, LAMBDA e : e.timestamp = tl[n].timestamp)
                /\ \A i, j \in 1..Len(tl) :
                      (tl[i].timestamp = NoTimestamp /\ tl[j].timestamp # NoTimestamp)
                        => i < j

\* C11 witness: a timeline merged from two partitions, where partition 2024
\* stores an event without timestamp after a timestamped one and partition
\* 2023 holds a different event with the same timestamp as the latter.
C11_Witness ==
    /\ pc = "event"
    /\ Len(timeline_data) = 3
    /\ files[CurPublisher].parts["2023"].kind = "list"
    /\ files[CurPublisher].parts["2024"].kind = "list"
    /\ Len(files[CurPublisher].parts["2023"].items) = 1
    /\ Len(files[CurPublisher].parts["2024"].items) = 2
    /\ timeline_data[1] = files[CurPublisher].parts["2024"].items[2]
    /\ timeline_data[1].timestamp = NoTimestamp
    /\ timeline_data[2].timestamp = timeline_data[3].timestamp
    /\ timeline_data[2] # timeline_data[3]
    /\ files[CurPublisher].parts["2023"].items[1] \in {timeline_data[2], timeline_data[3]}

\* C12: when no event of any publisher carries a timestamp, get_date_range
\* returns the current time for both bounds, and main does not go on to write
\* daily records for that window: no record is ever written in such a run.
C12_DegenerateRangeWritesNothing ==
    (pc \notin {"main", "range", "aborted"} /\ AllInstants = {}) =>
        /\ window.end = clock
        /\ window.start \in {clock - 1, clock}
        /\ out = <<>>

\* The state recorded in a history for an instant, and the signal that the
\* pending step of the replay emits for a bot at the current event's instant
StateAt(h, T) ==
    IF ~DictHas(h, T) THEN "none" ELSE IF DictGet(h, T) THEN "true" ELSE "false"
ReplaySteps == {"event", "initial_content", "rule_changes", "agents_added", "agents_removed"}
Signal(b) ==
    IF pc = "initial_content"
    THEN IF CurEvent.initial_content.kind = "list"
         THEN ScanBaseline(CurEvent.initial_content.items, b)
         ELSE "none"
    ELSE IF pc = "rule_changes"
    THEN IF /\ entryIdx <= Len(CurEvent.rule_changes.items)
            /\ CurEvent.rule_changes.items[entryIdx].isdict
            /\ CurEvent.rule_changes.items[entryIdx].user_agent = b
         THEN LET s == RuleChangeSignal(CurEvent.rule_changes.items[entryIdx])
              IN  IF s = "blocked" THEN "true" ELSE IF s = "unblocked" THEN "false" ELSE "none"
         ELSE "none"
    ELSE IF pc = "agents_added"
    THEN IF /\ entryIdx <= Len(CurEvent.agents_added.items)
            /\ CurEvent.agents_added.items[entryIdx] = b
            /\ ScanTimeline(timeline_data, CurEvent.timestamp, b, FALSE).found
         THEN "true"
         ELSE "none"
    ELSE IF pc = "agents_removed"
    THEN IF /\ entryIdx <= Len(CurEvent.agents_removed.items)
            /\ CurEvent.agents_removed.items[entryIdx] = b
         THEN "false"
         ELSE "none"
    ELSE "none"

\* C13: after every step of the replay the state recorded for a bot at an
\* instant is the value of the last signal emitted for that bot at that
\* instant: a step that emits a signal for the bot at the event's instant
\* replaces whatever was recorded there, and the state recorded for any other
\* bot or instant stays what it was.
C13_LastSignalWins ==
    [][(pc \in ReplaySteps /\ pc' # "aborted")
       => \A b \in BotSet : \A T \in 0..MaxClock :
            StateAt(History(b)', T) =
                IF pc # "event" /\ T = EventDate /\ Signal(b) # "none"
                THEN Signal(b)
                ELSE StateAt(History(b), T)]_vars

\* C13 witness: the replay of two events is over; the second event blocked
\* GPTBot by a rule change and then removed it at the same instant, and the
\* first event blocked it at an earlier instant.
C13_Witness ==
    /\ pc = "daily"
    /\ Len(timeline_data) = 2
    /\ timeline_data[1] = BlockBoth(FirstInstant)
    /\ timeline_data[2].timestamp = LaterInstant
    /\ timeline_data[2].rule_changes = List(<<Rule(GPT, Plain(SomePath), Absent)>>)
    /\ timeline_data[2].agents_removed = List(<<GPT>>)
    /\ StateAt(History(GPT), Strptime(FirstInstant)) = "true"
    /\ StateAt(History(GPT), Strptime(LaterInstant)) = "false"
    /\ Len(History(GPT)) = 2

\* The replay of a whole sequence of events as one function: the loops of the
\* four facets over one event, and the loop over the events; scanned is the
\* sequence in which agents_added looks for a rule change.
RECURSIVE ReplayRuleChanges(_, _, _)
ReplayRuleChanges(hist, items, T) ==
    IF items = <<>> THEN hist
    ELSE ReplayRuleChanges(ProcessRuleChange(hist, Head(items), T).hist, Tail(items), T)
RECURSIVE ReplayAgentsAdded(_, _, _, _, _)
ReplayAgentsAdded(hist, scanned, ts, items, T) ==
    IF items = <<>> THEN hist
    ELSE ReplayAgentsAdded(ProcessAgentAdded(hist, scanned, ts, Head(items), T).hist,
                           scanned, ts, Tail(items), T)
RECURSIVE ReplayAgentsRemoved(_, _, _)
ReplayAgentsRemoved(hist, items, T) ==
    IF items = <<>> THEN hist
    ELSE ReplayAgentsRemoved(ProcessAgentRemoved(hist, Head(items), T), Tail(items), T)
ReplayEvent(hist, scanned, ev) ==
    IF ev.timestamp = NoTimestamp THEN hist
    ELSE LET T == Strptime(ev.timestamp)
             h1 == IF ev.initial_content.kind = "absent" THEN hist
                   ELSE ProcessInitialContent(hist, ev.initial_content, T).hist
             h2 == ReplayRuleChanges(h1, ev.rule_changes.items, T)
             h3 == ReplayAgentsAdded(h2, scanned, ev.timestamp, ev.agents_added.items, T)
         IN  ReplayAgentsRemoved(h3, ev.agents_removed.items, T)
RECURSIVE ReplayEvents(_, _, _)
ReplayEvents(hist, scanned, events) ==
    IF events = <<>> THEN hist
    ELSE ReplayEvents(ReplayEvent(hist, scanned, Head(events)), scanned, Tail(events))
Replay(events) == ReplayEvents(EmptyHistory, events, events)
Timestamped(events) == SelectSeq(events, LAMBDA e : e.timestamp # NoTimestamp)

\* C14: an event without a timestamp contributes no transition: when the
\* replay of a publisher's timeline is over, the transitions recorded are those
\* of the replay of the timeline with every timestamp-less event removed, in
\* which no rule change of a timestamp-less event is left to corroborate an
\* agents_added entry.
C14_TimestamplessEventsIgnored ==
    pc = "daily" => bot_blocking_history = Replay(Timestamped(timeline_data))

\* C14 witness: the replay is over for a timeline with a timestamp-less event
\* that blocks GPTBot by a rule change and a timestamped event that only adds
\* GPTBot; nothing is recorded for GPTBot.
C14_Witness ==
    /\ pc = "daily"
    /\ Len(timeline_data) = 2
    /\ timeline_data[1] =
         Event(NoTimestamp, NoFacet, List(<<Rule(GPT, Plain(SomePath), Absent)>>),
               NoFacet, NoFacet)
    /\ timeline_data[2] = Event(FirstInstant, NoFacet, NoFacet, List(<<GPT>>), NoFacet)
    /\ History(GPT) = <<>>


\* The publishers whose daily records are due in the output: those whose loop
\* body has written them, and, when the replay of a publisher has raised, the
\* publishers after it; and the records of one publisher in the order written
Materialized(q) ==
    \/ /\ pc \in ReplaySteps \cup {"publisher", "daily", "summary", "done"}
       /\ q < pubIdx \/ (q = pubIdx /\ pc = "summary")
    \/ /\ pc = "aborted"
       /\ raisedIn = "create_blocking_timeseries"
       /\ q # pubIdx
RecordsOf(p) == SelectSeq(out, LAMBDA row : row.publisher = p)

\* C15: for the window of the run, the records written for a publisher depend
\* only on that publisher's own events: they are the daily records of the
\* replay, from an empty history, of the publisher's own timeline, whatever
\* the other publishers hold and whatever was replayed before.
C15_PublishersIndependent ==
    \A q \in 1..Len(Publishers) :
        Materialized(q) =>
            \E listing \in Listings :
                LET r == GetAllEventsForPublisher(files[Publishers[q]], listing)
                IN  /\ r.error = "none"
                    /\ RecordsOf(Publishers[q]) =
                         DailyRecords(Publishers[q], Replay(Timestamped(r.events)),
                                      window.start, window.end)

\* A timeline whose timestamped events are in non-decreasing order of instant
SortedByInstant(events) ==
    \A i, j \in 1..Len(events) :
        (/\ i < j
         /\ WellFormed(events[i].timestamp)
         /\ WellFormed(events[j].timestamp))
          => Strptime(events[i].timestamp) <= Strptime(events[j].timestamp)

\* C16: in the replay of a timeline that is sorted by instant, no step records
\* a transition for a bot at an instant earlier than an instant already
\* recorded for that bot.
C16_TransitionsCreatedInOrder ==
    [][(pc \in ReplaySteps /\ SortedByInstant(timeline_data))
       => \A b \in BotSet :
            \A T \in DictKeys(History(b)') \ DictKeys(History(b)) :
                \A U \in DictKeys(History(b)) : U <= T]_vars

\* C16 witness: the replay of a sorted timeline is over and GPTBot has two
\* transitions, the second created at a later instant than the first.
C16_Witness ==
    /\ pc = "daily"
    /\ Len(timeline_data) = 2
    /\ SortedByInstant(timeline_data)
    /\ Len(History(GPT)) = 2
    /\ History(GPT)[1].k < History(GPT)[2].k

\* The index in the output of the last record of a publisher and bot
LastRecord(p, b) ==
    SetMax({i \in 1..Len(out) : out[i].publisher = p /\ out[i].bot_name = b})

\* C17: the blocking summary printed for a publisher agrees with the grid: a
\* bot is listed as blocked exactly when the last daily record written for
\* that publisher and bot has is_blocked = 1.
C17_SummaryAgreesWithGrid ==
    \A n \in 1..Len(printed) :
        \A b \in BotSet :
            (\E k \in 1..Len(printed[n].blocked) : printed[n].blocked[k] = b)
              <=> out[LastRecord(printed[n].publisher, b)].is_blocked = 1
=============================================================================
